---- MODULE Spec2Model ----
(***************************************************************************)
(* A model of f_to_j.py: the EPUB Traditional -> Simplified converter.     *)
(*                                                                         *)
(* Text is modelled as a sequence of tokens.  A token is a record          *)
(* [t |-> kind, ref |-> file]: kind is one of                              *)
(*   XMLDECL  an "<?xml ...?>" declaration   (matches <\?xml[^>]+\?>)      *)
(*   DOCTYPE  an "<!DOCTYPE ...>" declaration (matches <!DOCTYPE[^>]+>)    *)
(*   TAG      any other "<...>" tag; ref is the file its full-path="..."   *)
(*            attribute names (NoFile when it has none)                    *)
(*   NL       the one character "\n"                                       *)
(*   NUM      characters of [\s\d.,:;!?] other than a lone "\n"            *)
(*   TRAD     text holding Traditional characters (OpenCC t2s changes it)  *)
(*   SIMP     text OpenCC t2s leaves as it is                              *)
(*   BAD      a byte sequence the decoder cannot decode (bytes only)       *)
(*   BIN      the bytes of a binary asset                                  *)
(*   MIME     the bytes b'application/epub+zip'                            *)
(* Offsets are counted in tokens.                                          *)
(***************************************************************************)
EXTENDS Integers, Sequences, FiniteSets, TLC

VARIABLES
    pc,             \* the step convert_epub is at
    fs,             \* the files at the source, backup and output paths
    fs0,            \* fs when convert_epub was called
    srcPath,        \* epub_file_path
    zipAvail,       \* shutil.which('zip')
    converterOK,    \* whether OpenCC can be initialised
    tree,           \* extract_dir: relative path -> bytes
    extracted,      \* the tree as extractall left it
    todo,           \* text assets os.walk has still to yield
    file_count, changed_count,
    log,            \* per processed asset: bytes before, fault, outcome
    validRet,       \* what validate_epub_structure returned
    pkgRet,         \* what package_epub_safely returned
    route,          \* the packaging route taken
    result,         \* what convert_epub returned
    rw              \* one rewriter call on its own (SpecRewrite)

vars == <<pc, fs, fs0, srcPath, zipAvail, converterOK, tree, extracted, todo,
          file_count, changed_count, log, validRet, pkgRet, route, result, rw>>

pipeVars == <<pc, fs, fs0, srcPath, zipAvail, converterOK, tree, extracted, todo,
              log, validRet, pkgRet, route, result>>

\* Longest content (in tokens) the rewriter specification enumerates.
MaxLen == 4

\* Most files of a source archive the pipeline specification enumerates.
MaxFiles == 3

-----------------------------------------------------------------------------
(* File names and relative paths.  A file is [dir, dot, stem, ext]: its     *)
(* name is (dot ? "." : "") + stem + ext and its relative path dir/name     *)
(* (dir = "" for a top-level file).                                         *)

File(dir, dot, stem, ext) == [dir |-> dir, dot |-> dot, stem |-> stem, ext |-> ext]

NoFile == File("", FALSE, "", "")

Tok(k) == [t |-> k, ref |-> NoFile]

RootfileTag(f) == [t |-> "TAG", ref |-> f]

TagKinds == {"XMLDECL", "DOCTYPE", "TAG"}

HasKind(s, k) == \E i \in 1..Len(s) : s[i].t = k

\* str.startswith('<?xml')
StartsWithXml(s) == Len(s) > 0 /\ s[1].t = "XMLDECL"

-----------------------------------------------------------------------------
(* The converter: OpenCC('t2s').convert, token by token.                    *)

ConvertTok(tok) == IF tok.t = "TRAD" THEN Tok("SIMP") ELSE tok

ConvertText(s) == [i \in 1..Len(s) |-> ConvertTok(s[i])]

\* raw.decode(encoding, errors='ignore'): undecodable bytes are dropped.
IsDecodable(tok) == tok.t # "BAD"

Decode(raw) == SelectSeq(raw, IsDecodable)

-----------------------------------------------------------------------------
(* convert_xml_content                                                      *)

\* The text run around position i: from after the nearest tag on the left
\* to before the nearest tag on the right (0 and Len+1 when there is none).
RunLo(s, i) ==
    LET tags == {j \in 1..(i-1) : s[j].t \in TagKinds}
    IN  IF tags = {} THEN 0 ELSE CHOOSE j \in tags : \A k \in tags : k <= j

RunHi(s, i) ==
    LET tags == {j \in (i+1)..Len(s) : s[j].t \in TagKinds}
    IN  IF tags = {} THEN Len(s) + 1 ELSE CHOOSE j \in tags : \A k \in tags : j <= k

\* pattern = r'>([^<>]+)<' : the run is matched when a tag closes before it
\* and a tag opens after it.
XmlMatched(s, i) ==
    /\ s[i].t \notin TagKinds
    /\ RunLo(s, i) >= 1
    /\ RunHi(s, i) <= Len(s)

\* re.match(r'^[\s\d.,:;!?]+$', text)
XmlSkipped(s, i) ==
    \A j \in (RunLo(s, i) + 1)..(RunHi(s, i) - 1) : s[j].t \in {"NL", "NUM"}

\* The converter is invoked on the run around i.
XmlInvoked(s, i) == XmlMatched(s, i) /\ ~XmlSkipped(s, i)

\* replace_text, seen from token i of the match.
replace_text(s, i) ==
    IF XmlSkipped(s, i) THEN s[i]
    ELSE LET lo == RunLo(s, i) + 1
             text == SubSeq(s, lo, RunHi(s, i) - 1)
             new_text == ConvertText(text)
         IN  IF new_text # text THEN new_text[i - lo + 1] ELSE s[i]

\* new_content = re.sub(pattern, replace_text, changed_content)
XmlNewContent(content) ==
    [i \in 1..Len(content) |->
        IF XmlMatched(content, i) THEN replace_text(content, i) ELSE content[i]]

\* A rewriter that reports a change whenever the converter was invoked.
XmlChangedBuggy(content) == \E i \in 1..Len(content) : XmlInvoked(content, i)

XmlChanged(content) == XmlNewContent(content) # content

\* What the 'with open(file_path, "w")' block writes.
XmlWritten(content) ==
    LET new_content == XmlNewContent(content)
    IN  IF HasKind(content, "XMLDECL") /\ ~StartsWithXml(new_content)
        THEN <<Tok("XMLDECL"), Tok("NL")>> \o new_content
        ELSE new_content

-----------------------------------------------------------------------------
(* convert_html_content.  BeautifulSoup is a library: the model takes from  *)
(* it that every string of the document, declarations included, is a string *)
(* node in document order, and that str(soup) writes the nodes back in that *)
(* order.  keepDecl and keepDoctype say whether str(soup) keeps the XML      *)
(* declaration and the DOCTYPE; 'html.parser', the first parser of the list *)
(* and the one that is used, keeps both.                                    *)

\* lines 244-250: the parser that is used keeps the declarations
ParserKeeps == TRUE

\* converter.convert is invoked on every string node.
HtmlInvoked(s, i) == s[i].t \notin {"TAG"}

HtmlChanged(content) ==
    \E i \in 1..Len(content) :
        HtmlInvoked(content, i) /\ ConvertTok(content[i]) # content[i]

\* str(soup) after the replacements
HtmlKept(tok, keepDecl, keepDoctype) ==
    /\ (tok.t = "XMLDECL" => keepDecl)
    /\ (tok.t = "DOCTYPE" => keepDoctype)

RECURSIVE HtmlStr(_, _, _)
HtmlStr(s, keepDecl, keepDoctype) ==
    IF s = <<>> THEN <<>>
    ELSE (IF HtmlKept(Head(s), keepDecl, keepDoctype)
          THEN <<ConvertTok(Head(s))>> ELSE <<>>)
         \o HtmlStr(Tail(s), keepDecl, keepDoctype)

\* output.replace('?>\n', '?>\n' + doctype + '\n')
RECURSIVE InsertDoctype(_)
InsertDoctype(s) ==
    IF Len(s) < 2 THEN s
    ELSE IF s[1].t = "XMLDECL" /\ s[2].t = "NL"
         THEN <<s[1], s[2], Tok("DOCTYPE"), Tok("NL")>> \o InsertDoctype(Tail(Tail(s)))
         ELSE <<s[1]>> \o InsertDoctype(Tail(s))

HtmlWritten(content, keepDecl, keepDoctype) ==
    LET xml_declaration == HasKind(content, "XMLDECL")
        doctype == HasKind(content, "DOCTYPE")
        out0 == HtmlStr(content, keepDecl, keepDoctype)
        out1 == IF xml_declaration /\ ~StartsWithXml(out0)
                THEN <<Tok("XMLDECL"), Tok("NL")>> \o out0
                ELSE out0
    IN  IF doctype /\ ~HasKind(out1, "DOCTYPE")
        THEN IF xml_declaration /\ StartsWithXml(out1)
             THEN InsertDoctype(out1)
             ELSE <<Tok("DOCTYPE"), Tok("NL")>> \o out1
        ELSE out1

-----------------------------------------------------------------------------
(* One call of a rewriter on an asset holding `raw`, with a fault injected  *)
(* at `fault`: "none", "convert" (raised before the file is opened),        *)
(* "truncated" (raised after open(..., 'w') emptied the file), "partial"    *)
(* (raised after part of the output was written).                           *)

Faults == {"none", "convert", "truncated", "partial"}

IsHtml(kind) == kind = "html"

Rewrite(kind, content, raw, fault, keepDecl, keepDoctype) ==
    LET changed == IF IsHtml(kind) THEN HtmlChanged(content) ELSE XmlChanged(content)
        output  == IF IsHtml(kind) THEN HtmlWritten(content, keepDecl, keepDoctype)
                   ELSE XmlWritten(content)
        raised  == fault = "convert" \/ (changed /\ fault \in {"truncated", "partial"})
        isOpen  == changed /\ fault # "convert"
    IN  [changed |-> changed /\ ~raised,
         raised  |-> raised,
         opened  |-> isOpen,
         file    |-> IF ~isOpen THEN raw
                     ELSE IF fault = "truncated" THEN <<>>
                     ELSE IF fault = "partial" THEN SubSeq(output, 1, Len(output) \div 2)
                     ELSE output]

-----------------------------------------------------------------------------
(* The rewriters on their own, over every content of at most MaxLen tokens. *)

RwKinds == {"XMLDECL", "DOCTYPE", "TAG", "NL", "NUM", "TRAD", "SIMP"}

RwTokens == {Tok(k) : k \in RwKinds}

Contents == UNION {[1..n -> RwTokens] : n \in 0..MaxLen}

RwIdle == [phase |-> "idle"]

InitRewrite ==
    /\ \E kind \in {"html", "xml"}, content \in Contents :
          rw = [phase |-> "ready", kind |-> kind, content |-> content]
    /\ pc = "rewrite"
    /\ fs = <<>> /\ fs0 = <<>> /\ srcPath = <<>>
    /\ zipAvail = FALSE /\ converterOK = TRUE
    /\ tree = <<>> /\ extracted = <<>> /\ todo = {}
    /\ file_count = 0 /\ changed_count = 0
    /\ log = <<>>
    /\ validRet = "none" /\ pkgRet = "none" /\ route = "none" /\ result = "none"

\* The call of lines 106-116 and what it leaves
Called(kind) ==
    LET r == Rewrite(kind, rw.content, rw.content, "none", ParserKeeps, ParserKeeps)
    IN  /\ rw' = [phase |-> "done", kind |-> kind, content |-> rw.content,
                  changed |-> r.changed, opened |-> r.opened, file |-> r.file]
        /\ file_count' = file_count + 1
        /\ changed_count' = IF r.changed THEN changed_count + 1 ELSE changed_count

RewriteHtml ==
    /\ rw.phase = "ready"
    /\ rw.kind = "html"
    /\ Called("html")
    /\ UNCHANGED pipeVars

RewriteXml ==
    /\ rw.phase = "ready"
    /\ rw.kind = "xml"
    /\ Called("xml")
    /\ UNCHANGED pipeVars

NextRewrite == RewriteHtml \/ RewriteXml

SpecRewrite == InitRewrite /\ [][NextRewrite]_vars

-----------------------------------------------------------------------------
(* Paths of the host file system.  A path is the sequence of the pieces     *)
(* str.replace sees: each piece is either the text '.epub' or text without  *)
(* it.  Output paths are absolute.                                          *)

SrcPaths == {<<"/d/book", ".epub">>, <<"/d/book", ".zip">>}

RECURSIVE Replace(_, _)
\* path.replace('.epub', new)
Replace(path, new) ==
    IF path = <<>> THEN <<>>
    ELSE (IF Head(path) = ".epub" THEN new ELSE <<Head(path)>>) \o Replace(Tail(path), new)

BackupPath(path) == Replace(path, <<"_backup", ".epub">>)

OutputPath(path) == Replace(path, <<"_simplified", ".epub">>)

Absent == [kind |-> "absent", entries |-> <<>>]

\* A non-empty file that is no zip archive.
Garbage == [kind |-> "garbage", entries |-> <<>>]

Zip(entries) == [kind |-> "zip", entries |-> entries]

Entry(f, method, data) == [name |-> f, method |-> method, data |-> data]

-----------------------------------------------------------------------------
(* The files a source archive may hold, and the bytes each may have.        *)

FMime       == File("", FALSE, "mimetype", "")
FContainer  == File("META-INF", FALSE, "container", ".xml")
FEncryption == File("META-INF", FALSE, "encryption", ".xml")
FOpf        == File("OEBPS", FALSE, "content", ".opf")
FTopOpf     == File("", FALSE, "book", ".opf")
FChapter    == File("OEBPS", FALSE, "ch1", ".xhtml")
FSubMime    == File("OEBPS", FALSE, "mimetype", "")
FHidden     == File("", TRUE, "hidden", "")
FDSStore    == File("OEBPS", TRUE, "DS_Store", "")
FOld        == File("", FALSE, "old", ".txt")

\* Directory listing order.
Universe == <<FMime, FHidden, FTopOpf, FContainer, FEncryption,
              FOpf, FChapter, FSubMime, FDSStore, FOld>>

SourceFiles == {Universe[i] : i \in 1..Len(Universe)} \ {FOld}

MimeBytes == <<Tok("MIME")>>

DataOf(f) ==
    IF f = FMime THEN {<<Tok("MIME"), Tok("NL")>>}
    ELSE IF f = FContainer
         THEN {<<Tok("XMLDECL"), Tok("NL"), RootfileTag(FOpf)>>,
               <<Tok("XMLDECL"), Tok("NL"), Tok("TAG")>>}
    ELSE IF f = FEncryption THEN {<<Tok("TAG"), Tok("TRAD"), Tok("TAG")>>}
    ELSE IF f = FOpf
         THEN {<<Tok("XMLDECL"), Tok("TAG"), Tok("BAD"), Tok("TRAD"), Tok("TAG")>>,
               <<Tok("XMLDECL"), Tok("TAG"), Tok("SIMP"), Tok("TAG")>>}
    ELSE IF f = FTopOpf THEN {<<Tok("TAG"), Tok("NUM"), Tok("TAG")>>}
    ELSE IF f = FChapter
         THEN {<<Tok("DOCTYPE"), Tok("TAG"), Tok("TRAD"), Tok("BAD"), Tok("TAG")>>}
    ELSE {<<Tok("BIN")>>}

\* The relative-path -> bytes maps of the archives of at most MaxFiles files.
Trees ==
    UNION {{t \in [S -> UNION {DataOf(f) : f \in S}] : \A f \in S : t[f] \in DataOf(f)} :
           S \in {S \in SUBSET SourceFiles : Cardinality(S) <= MaxFiles}}

RECURSIVE Listing(_, _)
\* The files of `present`, in directory listing order (os.walk, zip).
Listing(order, present) ==
    IF order = <<>> THEN <<>>
    ELSE (IF Head(order) \in present THEN <<Head(order)>> ELSE <<>>)
         \o Listing(Tail(order), present)

Files(t) == Listing(Universe, DOMAIN t)

ArchiveOf(t) ==
    Zip([i \in 1..Len(Files(t)) |-> Entry(Files(t)[i], "deflated", t[Files(t)[i]])])

Names(arch) == {arch.entries[i].name : i \in 1..Len(arch.entries)}

\* t with f |-> data added or replaced
Put(t, f, data) == [g \in DOMAIN t \cup {f} |-> IF g = f THEN data ELSE t[g]]

-----------------------------------------------------------------------------
Init ==
    /\ pc = "backup"
    /\ srcPath \in SrcPaths
    /\ zipAvail \in BOOLEAN
    /\ converterOK \in BOOLEAN
    /\ \E source \in {Garbage} \cup {ArchiveOf(t) : t \in Trees},
          stale \in {Absent, Garbage, Zip(<<Entry(FOld, "deflated", <<Tok("BIN")>>)>>)} :
          fs = [p \in {srcPath, BackupPath(srcPath), OutputPath(srcPath)} |->
                  IF p = srcPath THEN source
                  ELSE IF p = OutputPath(srcPath) THEN stale
                  ELSE Absent]
    /\ fs0 = fs
    /\ tree = <<>> /\ extracted = <<>> /\ todo = {}
    /\ file_count = 0 /\ changed_count = 0
    /\ log = <<>>
    /\ validRet = "none" /\ pkgRet = "none" /\ route = "none" /\ result = "none"
    /\ rw = RwIdle

\* convert_epub returns `value`
Return(value) == result' = value /\ pc' = "done"

\* lines 28-33
Backup ==
    /\ pc = "backup"
    /\ LET backup_file == BackupPath(srcPath)
       IN  fs' = IF fs[backup_file].kind = "absent"
                 THEN [fs EXCEPT ![backup_file] = fs[srcPath]]
                 ELSE fs
    /\ pc' = "init"
    /\ UNCHANGED <<fs0, srcPath, zipAvail, converterOK, tree, extracted, todo,
                   file_count, changed_count, log, validRet, pkgRet, route, result, rw>>

\* lines 35-53
InitConverter ==
    /\ pc = "init"
    /\ IF converterOK THEN pc' = "extract" /\ UNCHANGED result
       ELSE Return("false")
    /\ UNCHANGED <<fs, fs0, srcPath, zipAvail, converterOK, tree, extracted, todo,
                   file_count, changed_count, log, validRet, pkgRet, route, rw>>

\* zip_ref.extractall(extract_dir)
ExtractAll(arch) ==
    [f \in Names(arch) |->
        LET i == CHOOSE i \in 1..Len(arch.entries) : arch.entries[i].name = f
        IN  arch.entries[i].data]

\* lines 56-67
Extract ==
    /\ pc = "extract"
    /\ IF fs[srcPath].kind = "zip"
       THEN /\ tree' = ExtractAll(fs[srcPath])
            /\ extracted' = tree'
            /\ pc' = "validate"
            /\ UNCHANGED result
       ELSE /\ Return("false")
            /\ UNCHANGED <<tree, extracted>>
    /\ UNCHANGED <<fs, fs0, srcPath, zipAvail, converterOK, todo,
                   file_count, changed_count, log, validRet, pkgRet, route, rw>>

-----------------------------------------------------------------------------
(* validate_epub_structure and create_container_xml                         *)

EndsWith(f, exts) == f.ext \in exts

\* The f-string of create_container_xml
ContainerXml(opf_path) ==
    <<Tok("XMLDECL"), Tok("NL"), Tok("TAG"), Tok("NUM"), Tok("TAG"), Tok("NUM"),
      RootfileTag(opf_path), Tok("NUM"), Tok("TAG"), Tok("NL"), Tok("TAG")>>

\* re.search(r'full-path="([^"]+)"', container_content): NoFile when no match
FullPath(content) ==
    LET hits == {i \in 1..Len(content) : content[i].t = "TAG" /\ content[i].ref # NoFile}
    IN  IF hits = {} THEN NoFile
        ELSE content[CHOOSE i \in hits : \A j \in hits : i <= j].ref

\* The *.opf files in os.walk order
OpfFiles(t) == Listing(Universe, {f \in DOMAIN t : EndsWith(f, {".opf"})})

\* [ret |-> the value returned, tree |-> the tree it leaves]
validate_epub_structure(t) ==
    IF FMime \notin DOMAIN t THEN [ret |-> "true", tree |-> t]
    ELSE IF FContainer \notin DOMAIN t
         THEN IF OpfFiles(t) # <<>>
              THEN [ret |-> "true",
                    tree |-> Put(t, FContainer, ContainerXml(OpfFiles(t)[1]))]
              ELSE [ret |-> "false", tree |-> t]
    ELSE LET opf_path == FullPath(Decode(t[FContainer]))
         IN  IF opf_path # NoFile
             THEN IF opf_path \notin DOMAIN t
                  THEN [ret |-> "false", tree |-> t]
                  ELSE [ret |-> "true", tree |-> t]
             ELSE [ret |-> "false", tree |-> t]

TextExts == {".xhtml", ".html", ".htm", ".xml", ".opf", ".ncx"}

\* lines 69-72, and the start of the walk of line 78
Validate ==
    /\ pc = "validate"
    /\ LET v == validate_epub_structure(tree)
       IN  /\ validRet' = v.ret
           /\ tree' = v.tree
           /\ todo' = {f \in DOMAIN v.tree : EndsWith(f, TextExts)}
    /\ pc' = "assets"
    /\ UNCHANGED <<fs, fs0, srcPath, zipAvail, converterOK, extracted,
                   file_count, changed_count, log, pkgRet, route, result, rw>>

-----------------------------------------------------------------------------
(* The per-asset step: lines 80-127, on the next file of the walk           *)

KindOf(f) == IF EndsWith(f, {".xhtml", ".html", ".htm"}) THEN "html" ELSE "xml"

\* An except branch that writes the decoded text back instead of the bytes.
RestoreDecoded(original_content, content) == content

\* lines 119-123: what the except branch writes back
Restore(original_content, content) == original_content

ProcessAsset(f) ==
    /\ pc = "assets"
    /\ f = Listing(Universe, todo)[1]
    /\ \E fault \in Faults :
          LET raw == tree[f]
              content == Decode(raw)
              r == Rewrite(KindOf(f), content, raw, fault, ParserKeeps, ParserKeeps)
          IN  /\ tree' = [tree EXCEPT ![f] = IF r.raised THEN Restore(raw, content)
                                            ELSE r.file]
              /\ file_count' = file_count + 1
              /\ changed_count' = IF r.changed THEN changed_count + 1 ELSE changed_count
              /\ log' = Put(log, f, [before |-> raw, raised |-> r.raised,
                                     fault |-> IF r.raised THEN fault ELSE "none",
                                     changed |-> r.changed, opened |-> r.opened,
                                     partial |-> r.file])
    /\ todo' = todo \ {f}
    /\ UNCHANGED <<pc, fs, fs0, srcPath, zipAvail, converterOK, extracted,
                   validRet, pkgRet, route, result, rw>>

\* ensure_mimetype_file, once the walk is over: lines 135-136, 353-363
EnsureMimetype ==
    /\ pc = "assets"
    /\ todo = {}
    /\ tree' = Put(tree, FMime, MimeBytes)
    /\ pc' = "package"
    /\ UNCHANGED <<fs, fs0, srcPath, zipAvail, converterOK, extracted, todo,
                   file_count, changed_count, log, validRet, pkgRet, route, result, rw>>

-----------------------------------------------------------------------------
(* package_epub_safely                                                      *)

BaseName(f) == <<f.dot, f.stem, f.ext>>

DSStoreName == <<TRUE, "DS_Store", "">>
ThumbsName == <<FALSE, "Thumbs", ".db">>
MimeName == <<FALSE, "mimetype", "">>

\* lines 371-389: the copy in temp_dir, with mimetype rewritten
Staged(t) ==
    LET kept == {f \in DOMAIN t : BaseName(f) \notin {DSStoreName, ThumbsName}}
    IN  [f \in kept \cup {FMime} |-> IF f = FMime THEN MimeBytes ELSE t[f]]

RECURSIVE Entries(_, _, _)
\* One entry per file of `files`, in order, with the method stored(f) selects
Entries(files, t, storedSet) ==
    IF files = <<>> THEN <<>>
    ELSE <<Entry(Head(files), IF Head(files) \in storedSet THEN "stored" ELSE "deflated",
                 t[Head(files)])>>
         \o Entries(Tail(files), t, storedSet)

\* The zip tool adding `new` to the archive file `arch`: a file that is no
\* archive is an error and stays as it is, nothing to add changes nothing,
\* entries of an existing archive stay, those of the same name replaced in
\* place and the others appended.
ZipTool(arch, new) ==
    IF arch.kind = "garbage" \/ new = <<>> THEN arch
    ELSE LET old == arch.entries
             newNames == {new[i].name : i \in 1..Len(new)}
             at(f) == CHOOSE i \in 1..Len(new) : new[i].name = f
             isFresh(e) == e.name \notin Names(arch)
         IN  Zip([i \in 1..Len(old) |->
                    IF old[i].name \in newNames THEN new[at(old[i].name)] ELSE old[i]]
                 \o SelectSeq(new, isFresh))

\* What the shell's * and zip -r reach from temp_dir: every name that does
\* not begin with a dot at the top level, and all below the directories.
Globbed(f) == f.dir # "" \/ ~f.dot

\* lines 397-398: zip -X0 out mimetype ; zip -Xr9D out * -x mimetype
PackWithZipTool(staged, arch) ==
    LET first == ZipTool(arch, Entries(<<FMime>>, staged, {FMime}))
        rest == Listing(Universe, {f \in DOMAIN staged : Globbed(f) /\ f # FMime})
    IN  ZipTool(first, Entries(rest, staged, {}))

\* lines 408-428: zipfile.ZipFile(output_path, 'w')
PackWithZipfile(staged) ==
    LET rest == Listing(Universe,
                    {f \in DOMAIN staged :
                        BaseName(f) \notin {DSStoreName, ThumbsName, MimeName}})
    IN  Zip(Entries(<<FMime>>, staged, {FMime}) \o Entries(rest, staged, {FContainer}))

\* `ioError`: the output path cannot be written when packaging starts.
Package ==
    /\ pc = "package"
    /\ \E ioError \in BOOLEAN :
          LET output_path == OutputPath(srcPath)
              staged == Staged(tree)
          IN  IF zipAvail
              THEN /\ route' = "zip"
                   /\ fs' = IF ioError THEN fs
                            ELSE [fs EXCEPT ![output_path] =
                                     PackWithZipTool(staged, fs[output_path])]
                   /\ pkgRet' = IF fs'[output_path].kind # "absent" THEN "true" ELSE "false"
              ELSE /\ route' = "zipfile"
                   /\ fs' = IF ioError THEN fs
                            ELSE [fs EXCEPT ![output_path] = PackWithZipfile(staged)]
                   /\ pkgRet' = IF ioError THEN "false" ELSE "true"
    /\ pc' = "verify"
    /\ UNCHANGED <<fs0, srcPath, zipAvail, converterOK, tree, extracted, todo,
                   file_count, changed_count, log, validRet, result, rw>>

\* lines 139-153: every file of the model that exists is non-empty
Verify ==
    /\ pc = "verify"
    /\ IF pkgRet # "true" THEN Return("false")
       ELSE IF fs[OutputPath(srcPath)].kind # "absent" THEN Return("true")
       ELSE Return("false")
    /\ UNCHANGED <<fs, fs0, srcPath, zipAvail, converterOK, tree, extracted, todo,
                   file_count, changed_count, log, validRet, pkgRet, route, rw>>

Next ==
    \/ Backup
    \/ InitConverter
    \/ Extract
    \/ Validate
    \/ \E f \in todo : ProcessAsset(f)
    \/ EnsureMimetype
    \/ Package
    \/ Verify

Spec == Init /\ [][Next]_vars

-----------------------------------------------------------------------------
(* Properties                                                               *)

Output == fs[OutputPath(srcPath)]

Packaged == {f \in DOMAIN tree : BaseName(f) \notin {DSStoreName, ThumbsName}} \cup {FMime}

TextAssets(t) == {f \in DOMAIN t : EndsWith(f, TextExts)}

\* C1: whenever package_epub_safely returns True, whatever was at the output
\* path before, the archive there has 'mimetype' as its first entry, stored,
\* with content exactly b'application/epub+zip', on both packaging routes.
C1_MimetypeFirstStored ==
    pkgRet = "true" =>
        /\ Output.kind = "zip"
        /\ Len(Output.entries) >= 1
        /\ Output.entries[1] = Entry(FMime, "stored", MimeBytes)

\* C2: on every code path of convert_epub, for every input path, the bytes of
\* the source archive stay what they were when convert_epub was called.
C2_SourceUntouched == fs[srcPath] = fs0[srcPath]

\* C3: for a source that cannot be opened as a zip archive, convert_epub
\* returns False, the source is unmodified, a backup file distinct from the
\* source exists after the call, and no output archive is produced (stated
\* for the runs that get as far as opening the archive).
C3_CorruptSourceFails ==
    (pc = "done" /\ converterOK /\ fs0[srcPath].kind # "zip") =>
        /\ result = "false"
        /\ fs[srcPath] = fs0[srcPath]
        /\ BackupPath(srcPath) # srcPath
        /\ fs[BackupPath(srcPath)].kind # "absent"
        /\ Output = fs0[OutputPath(srcPath)]

\* C4: for a working tree without META-INF/container.xml and with exactly one
\* *.opf file (with or without a mimetype file), validate_epub_structure
\* writes a container.xml whose full-path is that file's relative path and
\* returns True, and the run ends with an output archive holding that locator.
C4_LocatorSynthesized ==
    LET opfs == {f \in DOMAIN extracted : EndsWith(f, {".opf"})}
    IN  (validRet # "none" /\ FContainer \notin DOMAIN extracted /\ Cardinality(opfs) = 1) =>
            /\ validRet = "true"
            /\ FContainer \in DOMAIN tree
            /\ FullPath(Decode(tree[FContainer])) \in opfs
            /\ pc = "done" =>
                  /\ result = "true"
                  /\ Output.kind = "zip"
                  /\ \E i \in 1..Len(Output.entries) :
                        /\ Output.entries[i].name = FContainer
                        /\ FullPath(Decode(Output.entries[i].data)) \in opfs

\* C5: when a rewriter raises on a text asset, at any point, also after the
\* file was truncated or partly written, the file's bytes after the per-asset
\* step are the bytes read before it, and the run goes on: every text asset
\* is processed and packaging is attempted.
C5_FailedAssetRestored ==
    /\ \A f \in DOMAIN log : log[f].raised => tree[f] = log[f].before
    /\ (pc = "done" /\ \E f \in DOMAIN log : log[f].raised) =>
          /\ DOMAIN log = TextAssets(tree)
          /\ pkgRet # "none"
          /\ file_count = Cardinality(DOMAIN log)

\* A run that ended with True although the rewriter raised on an asset with
\* undecodable bytes after writing part of a different output.
C5_Witness ==
    /\ pc = "done"
    /\ result = "true"
    /\ \E f \in DOMAIN log :
          /\ log[f].raised
          /\ log[f].fault = "partial"
          /\ log[f].partial # log[f].before
          /\ HasKind(log[f].before, "BAD")
          /\ tree[f] = log[f].before

\* C6: in every archive package_epub_safely produces, every entry under
\* META-INF/ is stored and every entry other than 'mimetype' and those under
\* META-INF/ is deflated.
C6_MetaInfStored ==
    (pkgRet = "true" /\ Output.kind = "zip") =>
        \A i \in 1..Len(Output.entries) :
            LET e == Output.entries[i]
            IN  /\ e.name.dir = "META-INF" => e.method = "stored"
                /\ (e.name # FMime /\ e.name.dir # "META-INF") => e.method = "deflated"

\* C7: convert_epub returns True only if the archive at the output path lists
\* the 'mimetype' entry (and is non-empty).
C7_TrueOnlyWithMimetype ==
    result = "true" => (Output.kind = "zip" /\ FMime \in Names(Output))

\* C8: when the converter returns its input for every text run it is invoked
\* on, the rewriter (HTML or XML) returns changed = False, does not open the
\* file for writing, leaves its bytes alone, and the asset is not counted in
\* changed_count.
RwInvoked(i) ==
    IF IsHtml(rw.kind) THEN HtmlInvoked(rw.content, i) ELSE XmlInvoked(rw.content, i)

RwIdentity ==
    \A i \in 1..Len(rw.content) : RwInvoked(i) => ConvertTok(rw.content[i]) = rw.content[i]

C8_IdentityWritesNothing ==
    (rw.phase = "done" /\ RwIdentity) =>
        /\ ~rw.changed
        /\ ~rw.opened
        /\ rw.file = rw.content
        /\ changed_count = 0
        /\ file_count = 1

\* An XML asset on which the converter was invoked and changed nothing.
C8_Witness ==
    /\ rw.phase = "done"
    /\ rw.kind = "xml"
    /\ RwIdentity
    /\ \E i \in 1..Len(rw.content) : RwInvoked(i) /\ rw.content[i].t = "SIMP"
    /\ ~rw.changed

\* C9: the written output of a changed asset holds the input's XML declaration
\* (and, for the HTML kind, its DOCTYPE) exactly once, at the offset it has in
\* the input, whatever precedes it.
Positions(s, k) == {i \in 1..Len(s) : s[i].t = k}

DeclPreserved(k) ==
    Cardinality(Positions(rw.content, k)) = 1 =>
        Positions(rw.file, k) = Positions(rw.content, k)

C9_DeclarationsInPlace ==
    (rw.phase = "done" /\ rw.changed) =>
        /\ DeclPreserved("XMLDECL")
        /\ IsHtml(rw.kind) => DeclPreserved("DOCTYPE")

\* C10: whenever package_epub_safely returns True, the entry names of the
\* output archive are exactly the relative paths of the working-tree files
\* not named '.DS_Store' or 'Thumbs.db' (plus 'mimetype'), each once.
C10_EntriesAreTheTree ==
    pkgRet = "true" =>
        /\ Output.kind = "zip"
        /\ Names(Output) = Packaged
        /\ Len(Output.entries) = Cardinality(Packaged)

====
